---- MODULE Spec2Model ----
(***************************************************************************)
(* Model of src/main.py: the GameLoop thread, the SpaceSimBackend slots    *)
(* that run in the main thread, and the Asteroid operations.               *)
(*                                                                         *)
(* Numbers.  Python floats are modelled as exact rationals held in scaled  *)
(* integers (rounding is not modelled):                                    *)
(*   - a tick delta dt is counted in units of 1/target_fps second, so the  *)
(*     loop's dt = 1 / self.target_fps is the integer 1;                   *)
(*   - time_scale is counted in tenths (the spin box step), 1.0 is 10;     *)
(*   - total_seconds, the argument of Asteroid.update and every position   *)
(*     component are counted in units of 1/(10*target_fps), so that        *)
(*     dt * time_scale is the plain integer product;                       *)
(*   - velocity is in whole units per second, raw_mass in whole units,     *)
(*     purity in tenths, and the value mine returns in tenths.             *)
(***************************************************************************)
EXTENDS Integers, Sequences, FiniteSets, TLC

\* ------------------------------------------------------------------ bounds
MaxTicks == 3          \* ticks the loop may emit before it stays asleep
MaxLaunch == 12        \* launch_ship calls in one behaviour
MaxDirect == 3         \* direct calls in one behaviour of SpecDirect
MaxCreate == 3         \* asteroids created in one behaviour of SpecIds
IdLength == 2          \* the length the id generator is called with
RunTicks == 60         \* ticks of the uninterrupted run of SpecRun

\* ------------------------------------------------------- program constants
InitialFuel == 100     \* self.fuel = 100
LaunchCost == 10       \* self.fuel -= 10
InitialTimeScale == 10 \* self.time_scale = 1.0, in tenths
NumAsteroids == 5      \* range(5)
TickDt == 1            \* dt = 1 / self.target_fps, in units of 1/target_fps

\* values the spin box (range 0.1 .. 10.0, step 0.1) can hand to
\* set_time_scale, in tenths
SpinBoxScales == {1, 10, 25}
\* arguments of a direct call of set_time_scale, in tenths
DirectScales == {-10, 0, 10, 20}
\* arguments of a direct call of SpaceSimBackend.update, in 1/target_fps
DirectDts == {-1, 0, 1, 2}
\* arguments of a direct call of Asteroid.update, in 1/(10*target_fps)
DirectAsteroidDts == {-10, 0, 25}
\* arguments of a direct call of Asteroid.mine
DirectAmounts == {-5, 0, 20, 100}
\* seeds of the random initial asteroid field
Seeds == {0, 1}
\* the characters of an id, out of string.ascii_uppercase + string.digits
IdChars == <<"A", "Z", "7">>

VARIABLES
  fuel,               \* SpaceSimBackend.fuel
  total_seconds,      \* SpaceSimBackend.total_seconds
  time_scale,         \* SpaceSimBackend.time_scale
  current_game_state, \* SpaceSimBackend.current_game_state
  asteroids,          \* SpaceSimBackend.asteroids
  running,            \* GameLoop.running
  pc,                 \* position of the GameLoop thread in run()
  queue,              \* updateSignal emissions queued for the main thread
  waiting,            \* main thread is inside GameLoop.stop, in self.wait()
  emitted,            \* signals emitted by the slot that ran last, in order
  lastOp,             \* the operation that ran last, its argument and result
  asteroids0,         \* the asteroids as __init__ created them
  nEmit,              \* ticks emitted by the loop so far
  nApplied,           \* update slots run so far
  nLaunch,            \* launch_ship calls so far
  nDirect,            \* direct calls so far (SpecDirect)
  lastToggle,         \* the run of start_pause_game calls that no other
                      \* command interrupts: its length (capped at 2), the
                      \* state before its latest call, and the parity of all
                      \* start_pause_game calls so far
  existing_ids,       \* Asteroid.existing_ids
  issued,             \* the ids generate_unique_alphanumeric_id returned,
                      \* in order
  lastDraw            \* the token the generator drew last and whether it
                      \* was returned

vars == <<fuel, total_seconds, time_scale, current_game_state, asteroids,
          running, pc, queue, waiting, emitted, lastOp, asteroids0,
          nEmit, nApplied, nLaunch, nDirect, lastToggle,
          existing_ids, issued, lastDraw>>

idvars == <<existing_ids, issued, lastDraw>>

world == <<fuel, total_seconds, time_scale, current_game_state, asteroids>>

\* ---------------------------------------------------------------- GameState
GameState == {"PLAYING", "PAUSED"}

\* -------------------------------------------------------------- Asteroid
\* Asteroid.update(dt): position = (x + vx*dt, y + vy*dt, z + vz*dt)
Asteroid_update_Frozen(a, dt) == a

Asteroid_update(a, dt) ==
  [a EXCEPT !.position = <<a.position[1] + a.velocity[1] * dt,
                           a.position[2] + a.velocity[2] * dt,
                           a.position[3] + a.velocity[3] * dt>>]

Min(x, y) == IF x <= y THEN x ELSE y

\* Asteroid.mine(amount): the asteroid afterwards
Asteroid_mine_NoMin(a, amount) ==
  [a EXCEPT !.raw_mass = a.raw_mass - amount]

Asteroid_mine(a, amount) ==
  [a EXCEPT !.raw_mass = a.raw_mass - Min(amount, a.raw_mass)]

\* Asteroid.mine(amount): the value returned, mined_mass * purity
Asteroid_mine_return(a, amount) == Min(amount, a.raw_mass) * a.purity

\* Asteroid.material_mass
material_mass(a) == a.raw_mass * a.purity

\* Asteroid.generate_random_asteroid, the i-th draw under seed s:
\* position in (-100, 100), velocity in (-1, 1), mass in (10, 100),
\* purity in (0.1, 0.8)
generate_random_asteroid(i, s) ==
  [position |-> <<600 * (20 * i - 60), 600 * (7 * s - 3 * i), 600 * (s - i)>>,
   velocity |-> <<IF (i + s) % 2 = 0 THEN 1 ELSE -1,
                  (i % 3) - 1,
                  IF i = 3 THEN s ELSE 0>>,
   raw_mass |-> 10 + 15 * i + 5 * s,
   purity   |-> 1 + ((i + 3 * s) % 8)]

\* Asteroid.generate_unique_alphanumeric_id(length): the tokens one draw of
\* random.choice over the characters can produce
Tokens == [1..IdLength -> {IdChars[c] : c \in 1..Len(IdChars)}]

\* if new_id not in Asteroid.existing_ids: the draw is returned
id_is_new_Always(new_id, ids) == TRUE

id_is_new(new_id, ids) == new_id \notin ids

RECURSIVE Power(_, _)
Power(b, e) == IF e = 0 THEN 1 ELSE b * Power(b, e - 1)

\* the n-th token, counting in base Len(IdChars)
TokenOf(n) ==
  [k \in 1..IdLength |->
     IdChars[((n \div Power(Len(IdChars), k - 1)) % Len(IdChars)) + 1]]

\* the id the generator returned for the i-th asteroid under seed s
SeedId(i, s) == TokenOf(i - 1 + 3 * s)

\* Asteroid.__init__: self.id = the generated id, the other fields as given
Asteroid_init(id, fields) ==
  [id       |-> id,
   position |-> fields.position,
   velocity |-> fields.velocity,
   raw_mass |-> fields.raw_mass,
   purity   |-> fields.purity]

NoDraw == [token |-> <<>>, returned |-> FALSE]

\* ------------------------------------------------------------------ signals
\* one emission: the signal, its arguments, and the backend's fields at the
\* moment of the emit call
Event(sig, text, val, list, ts, asts, f) ==
  [sig |-> sig, text |-> text, val |-> val, list |-> list,
   at |-> [total_seconds |-> ts, asteroids |-> asts, fuel |-> f]]

Positions(asts) == [i \in DOMAIN asts |-> asts[i].position]

\* a list argument of a signal: no list, the list object self.asteroids
\* itself (its items are the live Asteroid objects), or a copy of its items
NoList == [kind |-> "none", items |-> <<>>]

AsteroidsRef == [kind |-> "ref", items |-> <<>>]

CopyOf(asts) == [kind |-> "copy", items |-> asts]

\* what a receiver reads from a list argument when the backend's asteroids
\* are asts
Deref(l, asts) == IF l.kind = "ref" THEN asts ELSE l.items

\* --------------------------------------------------- SpaceSimBackend.update
\* self.total_seconds += dt * self.time_scale
update_total_seconds_Stalled(ts, dt, scale) == ts

update_total_seconds(ts, dt, scale) == ts + dt * scale

\* for asteroid in self.asteroids: asteroid.update(dt * self.time_scale)
update_asteroids_Reversed(asts, dt, scale) ==
  [i \in DOMAIN asts |->
     Asteroid_update(asts[Len(asts) + 1 - i], dt * scale)]

update_asteroids(asts, dt, scale) ==
  [i \in DOMAIN asts |-> Asteroid_update(asts[i], dt * scale)]

\* the signals update emits, in order, when the state is PLAYING:
\* time_updated right after total_seconds is set and before the asteroids
\* are updated, asteroid_data_updated after the loop over the asteroids
update_emitted_EntitiesFirst(ts, asts, dt, scale, f) ==
  LET ts1   == update_total_seconds(ts, dt, scale)
      asts1 == update_asteroids(asts, dt, scale)
  IN  << Event("asteroid_data_updated", "", 0, AsteroidsRef, ts1, asts1, f),
         Event("time_updated", "", ts1, NoList, ts1, asts1, f) >>

update_emitted_TimeBeforeMutation(ts, asts, dt, scale, f) ==
  LET ts1   == update_total_seconds(ts, dt, scale)
      asts1 == update_asteroids(asts, dt, scale)
  IN  << Event("time_updated", "", ts, NoList, ts, asts, f),
         Event("asteroid_data_updated", "", 0, AsteroidsRef, ts1, asts1, f) >>

update_emitted_Copy(ts, asts, dt, scale, f) ==
  LET ts1   == update_total_seconds(ts, dt, scale)
      asts1 == update_asteroids(asts, dt, scale)
  IN  << Event("time_updated", "", ts1, NoList, ts1, asts, f),
         Event("asteroid_data_updated", "", 0, CopyOf(asts1), ts1, asts1, f) >>

update_emitted(ts, asts, dt, scale, f) ==
  LET ts1   == update_total_seconds(ts, dt, scale)
      asts1 == update_asteroids(asts, dt, scale)
  IN  << Event("time_updated", "", ts1, NoList, ts1, asts, f),
         Event("asteroid_data_updated", "", 0, AsteroidsRef, ts1, asts1, f) >>

\* if self.current_game_state == GameState.PLAYING
update_guard_Always(state) == TRUE

update_guard(state) == state = "PLAYING"

\* the body of update(dt) on the backend's fields
update(dt) ==
  IF update_guard(current_game_state)
  THEN /\ total_seconds' = update_total_seconds(total_seconds, dt, time_scale)
       /\ asteroids' = update_asteroids(asteroids, dt, time_scale)
       /\ emitted' = update_emitted(total_seconds, asteroids, dt, time_scale, fuel)
  ELSE /\ UNCHANGED <<total_seconds, asteroids>>
       /\ emitted' = <<>>

\* ----------------------------------------- SpaceSimBackend.start_pause_game
start_pause_game_next_Stuck(state) ==
  IF state = "PLAYING" THEN "PAUSED" ELSE state

start_pause_game_next(state) ==
  IF state = "PLAYING" THEN "PAUSED"
  ELSE IF state = "PAUSED" THEN "PLAYING"
  ELSE state

\* ------------------------------------------- SpaceSimBackend.set_time_scale
\* self.time_scale = scale
set_time_scale_value(old, scale) == scale

\* ---------------------------------------------- SpaceSimBackend.launch_ship
launch_ship_fuel_NoCheck(f) == f - LaunchCost

launch_ship_fuel_Step30(f) == IF f > 0 THEN f - 30 ELSE f

launch_ship_fuel(f) == IF f > 0 THEN f - LaunchCost ELSE f

\* launch_message, then fuel_updated after the if/else
launch_ship_emitted_OnlyOnChange(f, ts, asts) ==
  LET f1 == launch_ship_fuel(f)
  IN  IF f > 0
      THEN << Event("launch_message", "Launching ship! Fuel remaining: {}%",
                    f1, NoList, ts, asts, f1),
              Event("fuel_updated", "", f1, NoList, ts, asts, f1) >>
      ELSE << Event("launch_message", "Not enough fuel to launch!",
                    0, NoList, ts, asts, f1) >>

launch_ship_emitted(f, ts, asts) ==
  LET f1 == launch_ship_fuel(f)
  IN  << IF f > 0
         THEN Event("launch_message", "Launching ship! Fuel remaining: {}%",
                    f1, NoList, ts, asts, f1)
         ELSE Event("launch_message", "Not enough fuel to launch!",
                    0, NoList, ts, asts, f1),
         Event("fuel_updated", "", f1, NoList, ts, asts, f1) >>

\* ------------------------------------------------------------------- Init
\* SpaceSimBackend.__init__: the state self.current_game_state starts in
InitialGameState_Paused == "PAUSED"

InitialGameState == "PLAYING"

\* the record kept of the last call: the operation, the asteroid it was
\* called on (0 for the backend), its argument, the value it returned and,
\* for a delivered updateSignal, the number of the tick
OpOn(name, i, arg, ret, tick) ==
  [op |-> name, on |-> i, arg |-> arg, ret |-> ret, tick |-> tick]

Op(name, arg) == OpOn(name, 0, arg, 0, 0)

NoToggle(state, bit) == [count |-> 0, from |-> state, bit |-> bit]

Init ==
  /\ fuel = InitialFuel
  /\ total_seconds = 0
  /\ time_scale = InitialTimeScale
  /\ current_game_state = InitialGameState
  /\ \E s \in Seeds :
       /\ asteroids = [i \in 1..NumAsteroids |->
                         Asteroid_init(SeedId(i, s),
                                       generate_random_asteroid(i, s))]
       /\ issued = [i \in 1..NumAsteroids |-> SeedId(i, s)]
  /\ existing_ids = {issued[i] : i \in 1..NumAsteroids}
  /\ lastDraw = [token |-> issued[NumAsteroids], returned |-> TRUE]
  /\ asteroids0 = asteroids
  /\ running = TRUE
  /\ pc = "while"
  /\ queue = <<>>
  /\ waiting = FALSE
  /\ emitted = <<>>
  /\ lastOp = Op("init", 0)
  /\ nEmit = 0
  /\ nApplied = 0
  /\ nLaunch = 0
  /\ nDirect = 0
  /\ lastToggle = NoToggle(InitialGameState, 0)

\* ------------------------------------------------- GameLoop.run, its thread
\* while self.running:   (the loop stays in its sleep once MaxTicks ticks
\* were emitted, unless it is being stopped)
LoopWhile_IgnoresRunning ==
  /\ pc = "while"
  /\ nEmit < MaxTicks
  /\ pc' = "if"
  /\ UNCHANGED <<world, running, queue, waiting, emitted, lastOp, asteroids0,
                 nEmit, nApplied, nLaunch, nDirect, lastToggle, idvars>>

LoopWhile ==
  /\ pc = "while"
  /\ nEmit < MaxTicks \/ ~running
  /\ pc' = IF running THEN "if" ELSE "done"
  /\ UNCHANGED <<world, running, queue, waiting, emitted, lastOp, asteroids0,
                 nEmit, nApplied, nLaunch, nDirect, lastToggle, idvars>>

\* if self.backend.current_game_state == GameState.PLAYING: read from the
\* loop's thread; the sleep that follows a skipped emit is part of the step
LoopIf ==
  /\ pc = "if"
  /\ pc' = IF current_game_state = "PLAYING" THEN "emit" ELSE "while"
  /\ UNCHANGED <<world, running, queue, waiting, emitted, lastOp, asteroids0,
                 nEmit, nApplied, nLaunch, nDirect, lastToggle, idvars>>

\* self.updateSignal.emit(dt): the receiver lives in the main thread, so the
\* call is queued there; then the sleep
LoopEmit_DirectConnection ==
  /\ pc = "emit"
  /\ update(TickDt)
  /\ lastOp' = OpOn("update", 0, TickDt, 0, nEmit + 1)
  /\ nEmit' = nEmit + 1
  /\ nApplied' = nApplied + 1
  /\ pc' = "while"
  /\ UNCHANGED <<fuel, time_scale, current_game_state, running, queue,
                 waiting, asteroids0, nLaunch, nDirect, lastToggle, idvars>>

LoopEmit ==
  /\ pc = "emit"
  /\ queue' = Append(queue, [dt |-> TickDt, tick |-> nEmit + 1])
  /\ nEmit' = nEmit + 1
  /\ pc' = "while"
  /\ UNCHANGED <<world, running, waiting, emitted, lastOp, asteroids0,
                 nApplied, nLaunch, nDirect, lastToggle, idvars>>

\* -------------------------------------------------- slots, the main thread
\* the main thread's event loop takes the queued calls in the order they
\* were posted: the call it delivers next and the calls that stay queued
Dequeue_Last(q) == [event |-> q[Len(q)], rest |-> SubSeq(q, 1, Len(q) - 1)]

Dequeue(q) == [event |-> Head(q), rest |-> Tail(q)]

\* the event loop delivers a queued updateSignal: update(dt) runs
update_slot ==
  /\ ~waiting
  /\ queue # <<>>
  /\ LET e == Dequeue(queue).event
     IN  /\ update(e.dt)
         /\ lastOp' = OpOn("update", 0, e.dt, 0, e.tick)
  /\ queue' = Dequeue(queue).rest
  /\ nApplied' = nApplied + 1
  /\ UNCHANGED <<fuel, time_scale, current_game_state, running, pc, waiting,
                 asteroids0, nEmit, nLaunch, nDirect, lastToggle, idvars>>

start_pause_game ==
  /\ ~waiting
  /\ current_game_state' = start_pause_game_next(current_game_state)
  /\ emitted' = << Event("game_state_changed", current_game_state', 0, NoList,
                         total_seconds, asteroids, fuel) >>
  /\ lastOp' = Op("start_pause_game", 0)
  /\ lastToggle' = [count |-> Min(lastToggle.count + 1, 2),
                    from  |-> current_game_state,
                    bit   |-> 1 - lastToggle.bit]
  /\ UNCHANGED <<fuel, total_seconds, time_scale, asteroids, running, pc,
                 queue, waiting, asteroids0, nEmit, nApplied, nLaunch, nDirect, idvars>>

set_time_scale_Retroactive(scale) ==
  /\ ~waiting
  /\ time_scale' = set_time_scale_value(time_scale, scale)
  /\ total_seconds' = (total_seconds * scale) \div InitialTimeScale
  /\ emitted' = <<>>
  /\ lastOp' = Op("set_time_scale", scale)
  /\ lastToggle' = NoToggle(current_game_state, lastToggle.bit)
  /\ UNCHANGED <<fuel, current_game_state, asteroids, running,
                 pc, queue, waiting, asteroids0, nEmit, nApplied, nLaunch,
                 nDirect, idvars>>

set_time_scale(scale) ==
  /\ ~waiting
  /\ time_scale' = set_time_scale_value(time_scale, scale)
  /\ emitted' = <<>>
  /\ lastOp' = Op("set_time_scale", scale)
  /\ lastToggle' = NoToggle(current_game_state, lastToggle.bit)
  /\ UNCHANGED <<fuel, total_seconds, current_game_state, asteroids, running,
                 pc, queue, waiting, asteroids0, nEmit, nApplied, nLaunch,
                 nDirect, idvars>>

launch_ship ==
  /\ ~waiting
  /\ nLaunch < MaxLaunch
  /\ fuel' = launch_ship_fuel(fuel)
  /\ emitted' = launch_ship_emitted(fuel, total_seconds, asteroids)
  /\ lastOp' = Op("launch_ship", 0)
  /\ nLaunch' = nLaunch + 1
  /\ lastToggle' = NoToggle(current_game_state, lastToggle.bit)
  /\ UNCHANGED <<total_seconds, time_scale, current_game_state, asteroids,
                 running, pc, queue, waiting, asteroids0, nEmit, nApplied,
                 nDirect, idvars>>

\* GameLoop.stop: self.running = False, then self.wait() blocks the caller
stop ==
  /\ ~waiting
  /\ running
  /\ running' = FALSE
  /\ waiting' = TRUE
  /\ emitted' = <<>>
  /\ lastOp' = Op("stop", 0)
  /\ lastToggle' = NoToggle(current_game_state, lastToggle.bit)
  /\ UNCHANGED <<world, pc, queue, asteroids0, nEmit, nApplied, nLaunch,
                 nDirect, idvars>>

\* self.wait() returns once run() has returned
stop_return ==
  /\ waiting
  /\ pc = "done"
  /\ waiting' = FALSE
  /\ UNCHANGED <<world, running, pc, queue, emitted, lastOp, asteroids0,
                 nEmit, nApplied, nLaunch, nDirect, lastToggle, idvars>>

Next ==
  \/ LoopWhile
  \/ LoopIf
  \/ LoopEmit
  \/ update_slot
  \/ start_pause_game
  \/ \E scale \in SpinBoxScales : set_time_scale(scale)
  \/ launch_ship
  \/ stop
  \/ stop_return

Spec == Init /\ [][Next]_vars

\* The same program with set_time_scale called by any caller of the slot,
\* not only by the spin box.
NextApi ==
  \/ Next
  \/ \E scale \in DirectScales : set_time_scale(scale)

SpecApi == Init /\ [][NextApi]_vars

\* ------------------------------------------------------------ direct calls
\* The operations called directly, with arguments of either sign, on a
\* backend whose loop has been stopped and whose queue is empty.
DirectTargets == {3}

InitDirect ==
  /\ fuel = InitialFuel
  /\ total_seconds = 0
  /\ time_scale = InitialTimeScale
  /\ current_game_state = InitialGameState
  /\ \E s \in Seeds :
       /\ asteroids = [i \in 1..NumAsteroids |->
                         Asteroid_init(SeedId(i, s),
                                       generate_random_asteroid(i, s))]
       /\ issued = [i \in 1..NumAsteroids |-> SeedId(i, s)]
  /\ existing_ids = {issued[i] : i \in 1..NumAsteroids}
  /\ lastDraw = [token |-> issued[NumAsteroids], returned |-> TRUE]
  /\ asteroids0 = asteroids
  /\ running = FALSE
  /\ pc = "done"
  /\ queue = <<>>
  /\ waiting = FALSE
  /\ emitted = <<>>
  /\ lastOp = Op("init", 0)
  /\ nEmit = 0
  /\ nApplied = 0
  /\ nLaunch = 0
  /\ nDirect = 0
  /\ lastToggle = NoToggle(InitialGameState, 0)

\* backend.update(dt)
direct_update(dt) ==
  /\ nDirect < MaxDirect
  /\ update(dt)
  /\ lastOp' = Op("update", dt)
  /\ nApplied' = nApplied + 1
  /\ nDirect' = nDirect + 1
  /\ UNCHANGED <<fuel, time_scale, current_game_state, running, pc, queue,
                 waiting, asteroids0, nEmit, nLaunch, lastToggle, idvars>>

\* backend.asteroids[i].update(dt)
direct_Asteroid_update(i, dt) ==
  /\ nDirect < MaxDirect
  /\ asteroids' = [asteroids EXCEPT ![i] = Asteroid_update(asteroids[i], dt)]
  /\ emitted' = <<>>
  /\ lastOp' = OpOn("Asteroid.update", i, dt, 0, 0)
  /\ nDirect' = nDirect + 1
  /\ UNCHANGED <<fuel, total_seconds, time_scale, current_game_state, running,
                 pc, queue, waiting, asteroids0, nEmit, nApplied, nLaunch,
                 lastToggle, idvars>>

\* backend.asteroids[i].mine(amount)
direct_Asteroid_mine(i, amount) ==
  /\ nDirect < MaxDirect
  /\ asteroids' = [asteroids EXCEPT ![i] = Asteroid_mine(asteroids[i], amount)]
  /\ emitted' = <<>>
  /\ lastOp' = OpOn("Asteroid.mine", i, amount,
                    Asteroid_mine_return(asteroids[i], amount), 0)
  /\ nDirect' = nDirect + 1
  /\ UNCHANGED <<fuel, total_seconds, time_scale, current_game_state, running,
                 pc, queue, waiting, asteroids0, nEmit, nApplied, nLaunch,
                 lastToggle, idvars>>

NextDirect ==
  \/ \E dt \in DirectDts : direct_update(dt)
  \/ \E scale \in DirectScales : set_time_scale(scale)
  \/ start_pause_game
  \/ \E i \in DirectTargets, dt \in DirectAsteroidDts :
       direct_Asteroid_update(i, dt)
  \/ \E i \in DirectTargets, amount \in DirectAmounts :
       direct_Asteroid_mine(i, amount)

SpecDirect == InitDirect /\ [][NextDirect]_vars

\* ================================================================== claims
\* a step in which update(dt) ran (delivered from the queue or called)
UpdateStep == nApplied' = nApplied + 1

\* a step in which launch_ship ran
LaunchStep == nLaunch' = nLaunch + 1

\* a step in which start_pause_game ran
ToggleStep == lastToggle'.bit # lastToggle.bit

\* C1: for dt >= 0 and time_scale >= 0, one update(dt) run while the state
\* is PLAYING adds exactly dt * time_scale to total_seconds, and one run in
\* any other state leaves total_seconds as it was.
C1_AdvanceAddsDtTimesScale ==
  [][ (UpdateStep /\ lastOp'.arg >= 0 /\ time_scale >= 0) =>
        IF current_game_state = "PLAYING"
        THEN total_seconds' = total_seconds + lastOp'.arg * time_scale
        ELSE total_seconds' = total_seconds ]_vars

C1_Witness ==
  /\ lastOp.op = "update"
  /\ lastOp.arg = 2
  /\ time_scale = 20
  /\ current_game_state = "PLAYING"
  /\ total_seconds = 40

\* C2: counted from fuel = 100, each of the first ten launch_ship calls
\* succeeds and takes 10 from fuel, down to 0; every later call fails,
\* leaves fuel at 0 and emits the failure message; ticks and other commands
\* in between change nothing of this.
C2_ElevenLaunches ==
  /\ nLaunch <= 10 => fuel = 100 - 10 * nLaunch
  /\ nLaunch > 10 => fuel = 0
  /\ lastOp.op = "launch_ship" =>
       /\ Len(emitted) >= 1
       /\ emitted[1].sig = "launch_message"
       /\ IF nLaunch <= 10
          THEN /\ emitted[1].text = "Launching ship! Fuel remaining: {}%"
               /\ emitted[1].val = fuel
          ELSE emitted[1].text = "Not enough fuel to launch!"

C2_Witness ==
  /\ lastOp.op = "launch_ship"
  /\ nLaunch = 11
  /\ fuel = 0
  /\ emitted[1].text = "Not enough fuel to launch!"
  /\ nApplied > 0
  /\ current_game_state = "PAUSED"

\* C3: fuel is an integer between 0 and 100 in every reachable state.
C3_FuelInRange == fuel \in 0..100

C3_Witness ==
  /\ fuel = 0
  /\ nLaunch = 12
  /\ time_scale = 25
  /\ total_seconds > 0

\* the emissions of one signal among those of the slot that ran last
EmittedOf(es, sig) == {k \in 1..Len(es) : es[k].sig = sig}

\* C4 as stated: launch_ship emits fuel_updated only where fuel changes: a
\* call made with fuel <= 0 emits no fuel_updated, and every fuel_updated
\* carries a value that differs from fuel before the call.
C4_Original ==
  [][ LaunchStep =>
        /\ fuel <= 0 => EmittedOf(emitted', "fuel_updated") = {}
        /\ \A k \in EmittedOf(emitted', "fuel_updated") :
             emitted'[k].val # fuel ]_vars

\* C4 as amended: every launch_ship call emits exactly one fuel_updated, as
\* its last signal, carrying fuel as it is after the call; the value differs
\* from fuel before the call exactly when the call was made with fuel > 0.
C4_FuelUpdatedOnEveryLaunch ==
  [][ LaunchStep =>
        /\ EmittedOf(emitted', "fuel_updated") = {Len(emitted')}
        /\ emitted'[Len(emitted')].val = fuel'
        /\ (emitted'[Len(emitted')].val # fuel) <=> (fuel > 0) ]_vars

C4_Witness ==
  /\ lastOp.op = "launch_ship"
  /\ nLaunch = 11
  /\ Len(emitted) = 2
  /\ emitted[1].text = "Not enough fuel to launch!"
  /\ emitted[2].sig = "fuel_updated"
  /\ emitted[2].val = 0

\* C5 as stated: the world starts in the state Start with total_seconds = 0
\* and nothing advances before acknowledgeStart is accepted.  The source has
\* no acknowledgeStart command, so every reachable state precedes the first
\* one.
AcknowledgeStartAccepted == lastOp.op = "acknowledgeStart"

C5_Original ==
  /\ lastOp.op = "init" => current_game_state = "START"
  /\ ~AcknowledgeStartAccepted =>
       /\ total_seconds = 0
       /\ Positions(asteroids) = Positions(asteroids0)

\* C5 as amended: the world starts in the state PLAYING with
\* total_seconds = 0, fuel = 100 and time_scale = 1.0, and total_seconds
\* stays 0 and no asteroid moves before the first update runs, whatever
\* ticks are emitted and whatever commands are given.
C5_PlayingFromInit ==
  /\ lastOp.op = "init" =>
       /\ current_game_state = "PLAYING"
       /\ fuel = 100
       /\ time_scale = 10
  /\ nApplied = 0 =>
       /\ total_seconds = 0
       /\ Positions(asteroids) = Positions(asteroids0)

C5_Witness ==
  /\ nApplied = 0
  /\ nEmit = 2
  /\ Len(queue) = 2
  /\ lastOp.op = "start_pause_game"
  /\ current_game_state = "PLAYING"
  /\ total_seconds = 0

\* C5, the other half of the amendment: the first update delivered while the
\* state is PLAYING does advance the simulation (there is no gate).
C5_FirstTickAdvances ==
  [][ (UpdateStep /\ nApplied = 0 /\ current_game_state = "PLAYING") =>
        /\ total_seconds' > 0
        /\ Positions(asteroids') # Positions(asteroids0) ]_vars

Flip(state) == IF state = "PLAYING" THEN "PAUSED" ELSE "PLAYING"

\* C6: start_pause_game takes PLAYING to PAUSED and PAUSED to PLAYING; the
\* second of two calls with no other command between them restores the state
\* the first one found; the state never leaves {PLAYING, PAUSED}.
C6_ToggleIsInvolution ==
  [][ /\ current_game_state' \in {"PLAYING", "PAUSED"}
      /\ ToggleStep =>
           /\ current_game_state' = Flip(current_game_state)
           /\ lastToggle.count >= 1 => current_game_state' = lastToggle.from
    ]_vars

C6_Witness ==
  /\ lastOp.op = "start_pause_game"
  /\ lastToggle.count = 2
  /\ lastToggle.from = "PAUSED"
  /\ current_game_state = "PLAYING"
  /\ nApplied = 1
  /\ Len(queue) = 1

\* C7 as stated: both signals of one update are emitted when every mutation
\* of that update is done: total_seconds set and every asteroid moved.
C7_Original ==
  [][ UpdateStep =>
        \A k \in 1..Len(emitted') :
          /\ emitted'[k].at.total_seconds = total_seconds'
          /\ Positions(emitted'[k].at.asteroids) = Positions(asteroids') ]_vars

\* C7 as amended: within one update each signal is emitted after the
\* mutation of the data it carries: time_updated after total_seconds is set
\* (and before any asteroid is moved), asteroid_data_updated after every
\* asteroid is moved.
C7_EachEventAfterItsOwnMutation ==
  [][ (UpdateStep /\ current_game_state = "PLAYING") =>
        /\ Len(emitted') = 2
        /\ emitted'[1].sig = "time_updated"
        /\ emitted'[1].val = total_seconds'
        /\ emitted'[1].at.total_seconds = total_seconds'
        /\ Positions(emitted'[1].at.asteroids) = Positions(asteroids)
        /\ emitted'[2].sig = "asteroid_data_updated"
        /\ Deref(emitted'[2].list, asteroids') = asteroids'
        /\ emitted'[2].at.total_seconds = total_seconds'
        /\ Positions(emitted'[2].at.asteroids) = Positions(asteroids') ]_vars

C7_Witness ==
  /\ lastOp.op = "update"
  /\ Len(emitted) = 2
  /\ emitted[1].sig = "time_updated"
  /\ emitted[1].val = total_seconds
  /\ Positions(emitted[1].at.asteroids) # Positions(asteroids)
  /\ Positions(emitted[2].at.asteroids) = Positions(asteroids)

\* C8: the queued ticks are applied one at a time in the order the loop
\* emitted them; each update run in PLAYING emits time_updated and then
\* asteroid_data_updated, both before the next tick is taken from the queue,
\* so a tick finds the asteroids as the tick before it left them.
C8_TicksSerialized ==
  [][ UpdateStep =>
        /\ lastOp'.tick = nApplied'
        /\ \A k \in 1..Len(queue') : queue'[k].tick = nApplied' + k
        /\ current_game_state = "PLAYING" =>
             /\ Len(emitted') = 2
             /\ emitted'[1].sig = "time_updated"
             /\ emitted'[2].sig = "asteroid_data_updated"
             /\ emitted'[1].at.asteroids = asteroids
             /\ emitted'[2].at.asteroids = asteroids' ]_vars

C8_Witness ==
  /\ lastOp.op = "update"
  /\ lastOp.tick = 2
  /\ nApplied = 2
  /\ nEmit = 3
  /\ Len(queue) = 1
  /\ Len(emitted) = 2
  /\ emitted[1].sig = "time_updated"

\* a step in which a direct call of an Asteroid operation ran
DirectStep == nDirect' = nDirect + 1

\* C9: an operation given a negative argument is rejected before it changes
\* anything: set_time_scale(scale < 0) leaves time_scale, mine(amount < 0)
\* leaves raw_mass and Asteroid.update(dt < 0) leaves position as they were,
\* and nothing else of the world changes either.
C9_Original ==
  [][ /\ (lastOp'.op = "set_time_scale" /\ lastOp'.arg < 0) =>
           /\ time_scale' = time_scale
           /\ UNCHANGED world
      /\ (DirectStep /\ lastOp'.op = "Asteroid.mine" /\ lastOp'.arg < 0) =>
           /\ asteroids'[lastOp'.on].raw_mass = asteroids[lastOp'.on].raw_mass
           /\ UNCHANGED world
      /\ (DirectStep /\ lastOp'.op = "Asteroid.update" /\ lastOp'.arg < 0) =>
           /\ asteroids'[lastOp'.on].position = asteroids[lastOp'.on].position
           /\ UNCHANGED world
    ]_vars

\* C9, one operation at a time
C9_SetTimeScaleRejectsNegative ==
  [][ (lastOp'.op = "set_time_scale" /\ lastOp'.arg < 0) =>
        time_scale' = time_scale ]_vars

C9_MineRejectsNegative ==
  [][ (DirectStep /\ lastOp'.op = "Asteroid.mine" /\ lastOp'.arg < 0) =>
        asteroids'[lastOp'.on].raw_mass = asteroids[lastOp'.on].raw_mass ]_vars

C9_IntegrateRejectsNegative ==
  [][ (DirectStep /\ lastOp'.op = "Asteroid.update" /\ lastOp'.arg < 0) =>
        asteroids'[lastOp'.on].position = asteroids[lastOp'.on].position ]_vars

\* C10: over any sequence of ticks and commands, set_time_scale calls
\* included, total_seconds is never negative, never decreases from one state
\* to the next, and is left alone by every step taken in a state other than
\* PLAYING.
C10_Original ==
  [][ /\ total_seconds' >= 0
      /\ total_seconds' >= total_seconds
      /\ current_game_state # "PLAYING" => total_seconds' = total_seconds
    ]_vars

\* a step in which Asteroid.mine ran
MineStep == DirectStep /\ lastOp'.op = "Asteroid.mine"

\* C11: over any sequence of mine(amount) calls with amount >= 0, raw_mass
\* stays >= 0, each call takes min(amount, raw_mass) from raw_mass and
\* returns that quantity times purity; once raw_mass is 0 a mine(x) with
\* x > 0 returns 0 and leaves raw_mass at 0.
C11_MineNeverOverdraws ==
  [][ (MineStep /\ lastOp'.arg >= 0) =>
        LET i    == lastOp'.on
            before == asteroids[i].raw_mass
            taken  == IF lastOp'.arg <= before THEN lastOp'.arg ELSE before
        IN  /\ before >= 0 => asteroids'[i].raw_mass >= 0
            /\ asteroids'[i].raw_mass = before - taken
            /\ lastOp'.ret = taken * asteroids[i].purity
            /\ asteroids'[i].purity = asteroids[i].purity
            /\ (before = 0 /\ lastOp'.arg > 0) =>
                 /\ lastOp'.ret = 0
                 /\ asteroids'[i].raw_mass = 0 ]_vars

\* C11, the state part: raw_mass of every asteroid is >= 0
C11_RawMassNonNegative ==
  \A i \in DOMAIN asteroids : asteroids[i].raw_mass >= 0

C11_Witness ==
  /\ lastOp.op = "Asteroid.mine"
  /\ lastOp.arg = 20
  /\ lastOp.ret = 0
  /\ asteroids[lastOp.on].raw_mass = 0
  /\ nDirect = 2

\* stop has been requested: only GameLoop.stop clears running
StopRequested == ~running

\* C12 as stated: once stop is requested no update changes total_seconds or
\* a position any more, the ticks emitted before the request and still
\* queued included.
C12_Original ==
  [][ StopRequested =>
        /\ total_seconds' = total_seconds
        /\ Positions(asteroids') = Positions(asteroids) ]_vars

\* C12 as amended: once stop is requested the loop begins no new iteration:
\* it emits at most the tick of the iteration that had already passed the
\* test of self.running, and none once stop has returned; the ticks that
\* were emitted are still delivered and applied after the request.
C12_NoNewIterationAfterStop ==
  [][ StopRequested =>
        /\ pc \in {"while", "done"} => pc' \in {"while", "done"}
        /\ pc \in {"while", "done"} => nEmit' = nEmit
        /\ nEmit' # nEmit => (pc = "emit" /\ nEmit' = nEmit + 1 /\ pc' = "while")
        /\ ~waiting => (pc = "done" /\ pc' = "done" /\ nEmit' = nEmit)
        /\ UpdateStep => lastOp'.tick <= nEmit ]_vars

C12_Witness ==
  /\ StopRequested
  /\ ~waiting
  /\ pc = "done"
  /\ lastOp.op = "update"
  /\ Len(emitted) = 2
  /\ total_seconds > 0
  /\ nApplied = nEmit

\* C13: while the state is PAUSED no step changes total_seconds or a
\* position: an update delivered in PAUSED does nothing, also when its tick
\* was decided on or emitted while the state still was PLAYING.
C13_PausedFreezesWorld ==
  [][ current_game_state = "PAUSED" =>
        /\ total_seconds' = total_seconds
        /\ Positions(asteroids') = Positions(asteroids) ]_vars

\* the loop has read PLAYING and is about to emit, and the state is PAUSED
C13_DecidedBeforePause ==
  /\ pc = "emit"
  /\ current_game_state = "PAUSED"

C13_Witness ==
  /\ current_game_state = "PAUSED"
  /\ lastOp.op = "update"
  /\ lastOp.tick = 1
  /\ emitted = <<>>
  /\ total_seconds = 0
  /\ lastToggle.count = 1

\* the slot that ran last delivered an asteroid_data_updated
SnapshotDelivered(es) ==
  /\ Len(es) = 2
  /\ es[2].sig = "asteroid_data_updated"

\* C14 as stated: what a receiver reads from a delivered asteroid_data_updated
\* equals the positions at its emission, when it is delivered and after any
\* later update.
C14_Original ==
  [][ /\ (UpdateStep /\ SnapshotDelivered(emitted')) =>
           Positions(Deref(emitted'[2].list, asteroids'))
             = Positions(emitted'[2].at.asteroids)
      /\ (UpdateStep /\ SnapshotDelivered(emitted)) =>
           Positions(Deref(emitted[2].list, asteroids'))
             = Positions(emitted[2].at.asteroids) ]_vars

\* C14 as amended: asteroid_data_updated carries the list self.asteroids
\* itself, not a copy: what a receiver reads from it while it is delivered
\* equals the positions at emission, and what it reads from it after a later
\* update are the positions that update produced.
C14_SnapshotIsLiveReference ==
  [][ /\ (UpdateStep /\ current_game_state = "PLAYING") =>
           /\ SnapshotDelivered(emitted')
           /\ emitted'[2].list = AsteroidsRef
           /\ Deref(emitted'[2].list, asteroids') = emitted'[2].at.asteroids
      /\ (UpdateStep /\ SnapshotDelivered(emitted)) =>
           Deref(emitted[2].list, asteroids') = asteroids' ]_vars

C14_Witness ==
  /\ lastOp.op = "update"
  /\ lastOp.tick = 2
  /\ SnapshotDelivered(emitted)
  /\ emitted[2].list = AsteroidsRef
  /\ Positions(asteroids) # Positions(asteroids0)
  /\ total_seconds = 20

\* a step of the GameLoop thread: every step of run() moves its pc; every
\* other step is a slot run by the main thread's event loop
LoopThreadStep == pc' # pc

\* a step that writes a field of the backend
WorldWritten == world' # world

\* C15 as stated: every write of fuel, total_seconds, time_scale,
\* current_game_state or the asteroids is made by the scheduling thread.
C15_Original ==
  [][ WorldWritten => LoopThreadStep ]_vars

\* C15 as amended: the backend has a single writer, the main thread: every
\* write is made by one slot the main thread's event loop runs, update for a
\* queued tick or a command slot, never by the GameLoop thread, which only
\* reads current_game_state and emits; a tick writes only total_seconds and
\* the asteroids and a command writes neither, so their writes never
\* interleave.
C15_MainThreadIsSingleWriter ==
  [][ /\ WorldWritten => ~LoopThreadStep
      /\ LoopThreadStep => (UNCHANGED world /\ UNCHANGED <<lastOp, emitted>>)
      /\ UpdateStep =>
           UNCHANGED <<fuel, time_scale, current_game_state>>
      /\ ~UpdateStep => UNCHANGED <<total_seconds, asteroids>> ]_vars

C15_Witness ==
  /\ lastOp.op = "launch_ship"
  /\ fuel = 90
  /\ total_seconds = 25
  /\ time_scale = 25
  /\ pc = "emit"
  /\ current_game_state = "PAUSED"

\* ------------------------------------------------------- asteroid creation
\* The process before the backend exists: Asteroid.existing_ids is empty and
\* asteroids are created one at a time.
InitIds ==
  /\ fuel = InitialFuel
  /\ total_seconds = 0
  /\ time_scale = InitialTimeScale
  /\ current_game_state = InitialGameState
  /\ asteroids = <<>>
  /\ asteroids0 = <<>>
  /\ running = FALSE
  /\ pc = "done"
  /\ queue = <<>>
  /\ waiting = FALSE
  /\ emitted = <<>>
  /\ lastOp = Op("init", 0)
  /\ nEmit = 0
  /\ nApplied = 0
  /\ nLaunch = 0
  /\ nDirect = 0
  /\ lastToggle = NoToggle(InitialGameState, 0)
  /\ existing_ids = {}
  /\ issued = <<>>
  /\ lastDraw = NoDraw

\* one pass of the while True loop of generate_unique_alphanumeric_id inside
\* Asteroid.__init__: the draw new_id is returned and becomes the id of the
\* new asteroid, or it is dropped and the loop draws again (the other fields
\* of the asteroid play no part in its id: they are those of seed 0)
generate_unique_alphanumeric_id(new_id) ==
  /\ Len(issued) < MaxCreate
  /\ IF id_is_new(new_id, existing_ids)
     THEN /\ existing_ids' = existing_ids \cup {new_id}
          /\ issued' = Append(issued, new_id)
          /\ asteroids' = Append(asteroids,
               Asteroid_init(new_id,
                             generate_random_asteroid(Len(asteroids) + 1, 0)))
          /\ lastDraw' = [token |-> new_id, returned |-> TRUE]
     ELSE /\ UNCHANGED <<existing_ids, issued, asteroids>>
          /\ lastDraw' = [token |-> new_id, returned |-> FALSE]
  /\ asteroids0' = asteroids'
  /\ UNCHANGED <<fuel, total_seconds, time_scale, current_game_state, running,
                 pc, queue, waiting, emitted, lastOp, nEmit, nApplied,
                 nLaunch, nDirect, lastToggle>>

NextIds ==
  \E new_id \in Tokens : generate_unique_alphanumeric_id(new_id)

SpecIds == InitIds /\ [][NextIds]_vars

\* a step in which the generator returned an id
IdIssued == Len(issued') = Len(issued) + 1

\* C16: every id the generator returns is outside the registry of issued
\* ids and is added to it, the registry only grows, and so no two asteroids
\* ever created share an id.
C16_IdsUnique ==
  [][ /\ existing_ids \subseteq existing_ids'
      /\ IdIssued =>
           LET id == issued'[Len(issued')]
           IN  /\ id \notin existing_ids
               /\ existing_ids' = existing_ids \cup {id}
               /\ \A k \in 1..Len(issued) : issued[k] # id
               /\ asteroids'[Len(asteroids')].id = id
               /\ \A i, j \in 1..Len(asteroids') :
                    i # j => asteroids'[i].id # asteroids'[j].id
      /\ ~IdIssued => existing_ids' = existing_ids ]_vars

\* C16, the state part, also for the asteroids __init__ created
C16_AsteroidIdsDistinct ==
  /\ \A i, j \in 1..Len(asteroids) :
       i # j => asteroids[i].id # asteroids[j].id
  /\ \A i \in 1..Len(asteroids) : asteroids[i].id \in existing_ids

C16_Witness ==
  /\ Len(issued) = 2
  /\ lastDraw.returned = FALSE
  /\ lastDraw.token = issued[1]
  /\ Cardinality(existing_ids) = 2

\* ------------------------------------------------------ uninterrupted run
\* The program left alone: the loop emits RunTicks ticks and the main thread
\* applies them; no command is given.
LoopWhileRun ==
  /\ pc = "while"
  /\ nEmit < RunTicks
  /\ pc' = IF running THEN "if" ELSE "done"
  /\ UNCHANGED <<world, running, queue, waiting, emitted, lastOp, asteroids0,
                 nEmit, nApplied, nLaunch, nDirect, lastToggle, idvars>>

NextRun ==
  \/ LoopWhileRun
  \/ LoopIf
  \/ LoopEmit
  \/ update_slot

SpecRun == Init /\ [][NextRun]_vars

C17_SixtyTicks ==
  nApplied = 60 =>
    /\ total_seconds = 600
    /\ \A i \in DOMAIN asteroids : \A k \in 1..3 :
         asteroids[i].position[k]
           = asteroids0[i].position[k] + 600 * asteroids[i].velocity[k]

C17_SixtyTicksWitness ==
  /\ nApplied = 60
  /\ total_seconds = 600

\* C18: set_time_scale(s) itself changes neither total_seconds nor a
\* position; time_scale is then s until the next set_time_scale, and every
\* update run in PLAYING adds dt times the time_scale it finds when it runs,
\* also for a tick that was queued before the command ran.
C18_ScaleAppliesFromNextUpdate ==
  [][ /\ ~UpdateStep =>
           /\ total_seconds' = total_seconds
           /\ Positions(asteroids') = Positions(asteroids)
      /\ lastOp'.op = "set_time_scale" => time_scale' = lastOp'.arg
      /\ time_scale' # time_scale => lastOp'.op = "set_time_scale"
      /\ (UpdateStep /\ current_game_state = "PLAYING") =>
           /\ time_scale' = time_scale
           /\ total_seconds' = total_seconds + lastOp'.arg * time_scale
           /\ \A i \in DOMAIN asteroids : \A k \in 1..3 :
                asteroids'[i].position[k] = asteroids[i].position[k]
                  + asteroids[i].velocity[k] * lastOp'.arg * time_scale
    ]_vars

\* a tick is queued, and set_time_scale runs before it is applied
C18_TickQueuedBeforeCommand ==
  /\ lastOp.op = "set_time_scale"
  /\ lastOp.arg = 25
  /\ Len(queue) = 1
  /\ nApplied = 0

C18_Witness ==
  /\ lastOp.op = "update"
  /\ lastOp.tick = 2
  /\ time_scale = 25
  /\ total_seconds = 35
  /\ current_game_state = "PLAYING"
  /\ queue = <<>>

Frame(a) == [id |-> a.id, velocity |-> a.velocity,
             raw_mass |-> a.raw_mass, purity |-> a.purity]

Frames(asts) == [i \in DOMAIN asts |-> Frame(asts[i])]

\* C19: update leaves fuel, time_scale, the game state, the number and
\* order of the asteroids and each asteroid's id, velocity, raw_mass and
\* purity unchanged; launch_ship changes at most fuel, start_pause_game at
\* most the game state, set_time_scale at most time_scale.
C19_FrameConditions ==
  [][ /\ lastOp'.op = "update" =>
           /\ UNCHANGED <<fuel, time_scale, current_game_state>>
           /\ Len(asteroids') = Len(asteroids)
           /\ Frames(asteroids') = Frames(asteroids)
      /\ lastOp'.op = "launch_ship" =>
           UNCHANGED <<total_seconds, time_scale, current_game_state,
                       asteroids>>
      /\ lastOp'.op = "start_pause_game" =>
           UNCHANGED <<fuel, total_seconds, time_scale, asteroids>>
      /\ lastOp'.op = "set_time_scale" =>
           UNCHANGED <<fuel, total_seconds, current_game_state, asteroids>>
    ]_vars

C19_Witness ==
  /\ lastOp.op = "update"
  /\ current_game_state = "PLAYING"
  /\ lastToggle.count = 2
  /\ fuel = InitialFuel - LaunchCost
  /\ time_scale = 1
  /\ Positions(asteroids) # Positions(asteroids0)
  /\ Frames(asteroids) = Frames(asteroids0)

\* ------------------------------------------------------- fair scheduling
\* The program without launch_ship (fuel plays no part in the progress of
\* time) and with set_time_scale called with any argument.  The operating
\* system schedules the loop's thread, so each of its steps that stays
\* enabled is taken; the main thread's event loop runs (app.exec_), so a
\* queued updateSignal is delivered.  The user's commands are not fair.
NextLive ==
  \/ LoopWhile
  \/ LoopIf
  \/ LoopEmit
  \/ update_slot
  \/ start_pause_game
  \/ \E scale \in DirectScales : set_time_scale(scale)
  \/ stop
  \/ stop_return

SpecLive ==
  /\ Init
  /\ [][NextLive]_vars
  /\ WF_vars(LoopWhile)
  /\ WF_vars(LoopIf)
  /\ WF_vars(LoopEmit)
  /\ WF_vars(update_slot)

\* the values total_seconds takes while time_scale stays positive: each tick
\* adds TickDt times 10 or 20 (the positive members of DirectScales)
LiveValues == {InitialTimeScale * TickDt * k : k \in 0 .. (2 * MaxTicks)}

\* C20: if the loop is never stopped, the state stays PLAYING and
\* time_scale stays positive, then total_seconds eventually exceeds each
\* value it has; in the model, as long as the loop has a tick left to emit.
C20_TimeProgresses ==
  ([]running /\ [](current_game_state = "PLAYING") /\ [](time_scale > 0))
    => \A v \in LiveValues :
         (total_seconds = v /\ nEmit < MaxTicks) ~> (total_seconds > v)

C20_Witness ==
  /\ running
  /\ current_game_state = "PLAYING"
  /\ lastToggle.count = 0
  /\ time_scale = 20
  /\ lastOp.op = "update"
  /\ lastOp.tick = MaxTicks
  /\ total_seconds = 40

====
